---------------------------- MODULE Spec2Model ----------------------------
(***************************************************************************)
(* Stroke matching engine of the Autograder (src/stroke_matcher.py):       *)
(* StrokeNormalizer, StrokeFeatureExtractor, FitnessFunction,             *)
(* GeneticAlgorithm, ErrorDetector and the StrokeMatcher pipeline.         *)
(*                                                                         *)
(* Numbers.  Coordinates are integers; after normalisation they lie in     *)
(* 0..100.  Floating point is modelled in fixed point: a distance is an    *)
(* integer number of hundredths, an angle an integer number of degrees in  *)
(* (-180, 180], a fitness the exact rational <<num, den>>.  A random draw  *)
(* of numpy is a nondeterministic choice over every value it can return.   *)
(* Python's None is the empty tuple <<>> and a present value v is <<v>>.   *)
(***************************************************************************)
EXTENDS Integers, Sequences, FiniteSets, TLC

VARIABLES
    pc,                 \* position of the running call
    mode,               \* "match": StrokeMatcher.match; "ga": GeneticAlgorithm used directly
    cfg,                \* fields of the StrokeMatcher object
    ga,                 \* fields of the GeneticAlgorithm object
    written_strokes,    \* arguments of match
    reference_strokes,
    written_features,   \* locals of match, arguments of evolve: lists of StrokeFeatures
    reference_features,
    population,         \* evolve locals
    new_population,
    fitnesses,
    best_chromosome,
    best_fitness,
    generations_without_improvement,
    generation,
    normalization_metadata,
    result,             \* value returned by the call (None while it runs)
    error,              \* exception that ended the call, with the place it was raised
    calls               \* number of calls made on the object so far

vars == <<pc, mode, cfg, ga, written_strokes, reference_strokes,
          written_features, reference_features, population,
          new_population, fitnesses, best_chromosome, best_fitness,
          generations_without_improvement, generation,
          normalization_metadata, result, error, calls>>

---------------------------------------------------------------------------
(* Bounds of the model *)

\* longest written stroke list of a call
MaxW == 2
\* longest reference stroke list of a call
MaxR == 2
\* largest population the model evolves
MaxPop == 3
\* largest max_generations of a StrokeMatcher
MaxGen == 2
\* largest convergence_generations of a GeneticAlgorithm built directly
MaxConv == 2
\* longest reference list of a GeneticAlgorithm built directly
MaxGaRef == 1
\* longest assignment handed to the ErrorDetector directly
MaxMapLen == 3
\* most match calls made on one StrokeMatcher
MaxCalls == 2

None == <<>>
Some(v) == <<v>>

Range(s) == {s[i] : i \in DOMAIN s}

RECURSIVE SumSeq(_)
SumSeq(s) == IF s = <<>> THEN 0 ELSE Head(s) + SumSeq(Tail(s))

MinOf(S) == CHOOSE m \in S : \A x \in S : m <= x
MaxOf(S) == CHOOSE m \in S : \A x \in S : m >= x
Abs(x) == IF x < 0 THEN -x ELSE x

\* all sequences over S of length lo..hi
SeqsOf(S, lo, hi) == UNION {[1..n -> S] : n \in lo..hi}

\* floor of the square root, by bisection on lo..hi (lo * lo <= n < hi * hi)
RECURSIVE SqrtBetween(_, _, _)
SqrtBetween(n, lo, hi) ==
    IF hi - lo <= 1 THEN lo
    ELSE LET mid == (lo + hi) \div 2
         IN  IF mid * mid <= n THEN SqrtBetween(n, mid, hi)
             ELSE SqrtBetween(n, lo, mid)

ISqrt(n) == SqrtBetween(n, 0, 20000)

\* np.linalg.norm of the vector (dx, dy), in hundredths
Norm(dx, dy) == ISqrt(10000 * (dx * dx + dy * dy))

---------------------------------------------------------------------------
(* Strokes: <<xs, ys>>, the rows stroke[0, :] and stroke[1, :] *)

StrokeA == <<(<<0, 4>>), (<<0, 0>>)>>
StrokeB == <<(<<0, 4>>), (<<4, 4>>)>>
StrokeArev == <<(<<4, 0>>), (<<0, 0>>)>>
StrokeV == <<(<<2, 2>>), (<<0, 4>>)>>
StrokeD == <<(<<0, 4>>), (<<0, 4>>)>>
StrokeH == <<(<<0, 4>>), (<<1, 1>>)>>

\* strokes a learner writes
Strokes == {StrokeA, StrokeB, StrokeArev}

\* the reference character of the corpus; a call's reference is a leading part of it
Character == <<StrokeA, StrokeB, StrokeV, StrokeArev>>
References == {SubSeq(Character, 1, n) : n \in 0..MaxR}

WrittenLists == SeqsOf(Strokes, 0, MaxW)

target_size == 100

\* StrokeNormalizer.normalize: the scale as the fraction <<num, den>>
NormalizeScale(width, height) ==
    IF width = 0 /\ height = 0 THEN <<1, 1>>
    ELSE IF width = 0 THEN <<target_size, height>>
    ELSE IF height = 0 THEN <<target_size, width>>
    ELSE <<target_size, IF width >= height THEN width ELSE height>>

Normalize(strokes) ==
    IF Len(strokes) = 0 THEN [normalized |-> <<>>, metadata |-> None]
    ELSE LET all_x == UNION {Range(strokes[i][1]) : i \in DOMAIN strokes}
             all_y == UNION {Range(strokes[i][2]) : i \in DOMAIN strokes}
             x_min == MinOf(all_x)
             x_max == MaxOf(all_x)
             y_min == MinOf(all_y)
             y_max == MaxOf(all_y)
             width == x_max - x_min
             height == y_max - y_min
             scale == NormalizeScale(width, height)
             norm(s) == <<[k \in DOMAIN s[1] |-> ((s[1][k] - x_min) * scale[1]) \div scale[2]],
                          [k \in DOMAIN s[2] |-> ((s[2][k] - y_min) * scale[1]) \div scale[2]]>>
         IN  [normalized |-> [i \in DOMAIN strokes |-> norm(strokes[i])],
              metadata |-> Some([x_min |-> x_min, y_min |-> y_min, x_max |-> x_max,
                                 y_max |-> y_max, scale |-> scale,
                                 width |-> width, height |-> height])]

\* np.arctan2(dx, dy) in degrees: the angle of (dx, dy) from the +y axis.
\* Exact on the eight compass directions; other directions go to the
\* compass direction of their quadrant's diagonal.
Atan2Deg(dx, dy) ==
    IF dx = 0 THEN (IF dy >= 0 THEN 0 ELSE 180)
    ELSE IF dy = 0 THEN (IF dx > 0 THEN 90 ELSE -90)
    ELSE IF dx > 0 THEN (IF dy > 0 THEN 45 ELSE 135)
    ELSE (IF dy > 0 THEN -45 ELSE -135)

\* StrokeFeatureExtractor.extract
Extract(stroke) ==
    LET x == stroke[1]
        y == stroke[2]
        n == Len(x)
        start == <<x[1], y[1]>>
        end == <<x[n], y[n]>>
        vec == <<end[1] - start[1], end[2] - start[2]>>
    IN  [center |-> <<SumSeq(x) \div n, SumSeq(y) \div n>>,
         length |-> SumSeq([k \in 1..(n - 1) |-> Norm(x[k + 1] - x[k], y[k + 1] - y[k])]),
         angle |-> IF vec # <<0, 0>> THEN Atan2Deg(vec[1], vec[2]) ELSE 0,
         start_point |-> start,
         end_point |-> end]

ExtractAll(strokes) == [i \in DOMAIN strokes |-> Extract(strokes[i])]

---------------------------------------------------------------------------
(* FitnessFunction *)

\* |a - b| of two angles, wrapped to the shortest arc ([0, pi]), in degrees
AngleDiff(a, b) ==
    LET d == Abs(a - b)
    IN  IF d > 180 THEN 360 - d ELSE d

\* an angle in degrees as hundredths of a radian (pi = 3.14)
Radians(deg) == (deg * 314) \div 180

\* component-wise minimum of the centers of a feature list (zeros if empty)
BboxTopLeft(features) ==
    IF Len(features) > 0
    THEN <<MinOf({features[i].center[1] : i \in DOMAIN features}),
           MinOf({features[i].center[2] : i \in DOMAIN features})>>
    ELSE <<0, 0>>

\* position (from 1) of the element lst[idx] of a Python list of length n:
\* a negative idx counts from the end
PyIndex(n, idx) == IF idx >= 0 THEN idx + 1 ELSE n + idx + 1

\* reference_features[ref_idx - 1] raises IndexError
GeneRaises(rf, ref_idx) ==
    /\ ~(ref_idx = 0 \/ ref_idx > Len(rf))
    /\ PyIndex(Len(rf), ref_idx - 1) \notin 1..Len(rf)

\* one pass of the loop of compute_distance: the cost of written stroke
\* written_idx (1-based here) under the gene ref_idx
GeneDistance(w, wf, rf, written_idx, ref_idx) ==
    IF ref_idx = 0 \/ ref_idx > Len(rf) THEN 100000
    ELSE LET written_feat == wf[written_idx]
             ref_feat == rf[PyIndex(Len(rf), ref_idx - 1)]
             ref_bbox_tl == BboxTopLeft(rf)
             written_bbox_tl == BboxTopLeft(wf)
             d_center == Norm(written_feat.center[1] - ref_feat.center[1],
                              written_feat.center[2] - ref_feat.center[2])
             d_length == Abs(written_feat.length - ref_feat.length)
             d_angle == Radians(AngleDiff(written_feat.angle, ref_feat.angle))
             written_rel_dist == Norm(written_feat.center[1] - written_bbox_tl[1],
                                      written_feat.center[2] - written_bbox_tl[2])
             ref_rel_dist == Norm(ref_feat.center[1] - ref_bbox_tl[1],
                                  ref_feat.center[2] - ref_bbox_tl[2])
             d_relative == Abs(written_rel_dist - ref_rel_dist)
         IN  w.alpha * d_center + w.beta * d_length
             + w.gamma * d_angle + w.epsilon * d_relative

\* FitnessFunction.compute_distance, in hundredths
compute_distance(w, wf, rf, mapping) ==
    SumSeq([i \in DOMAIN mapping |-> GeneDistance(w, wf, rf, i, mapping[i])])

\* compute_distance raises IndexError on the mapping
DistanceRaises(rf, mapping) == \E i \in DOMAIN mapping : GeneRaises(rf, mapping[i])

\* a fitness without the 1.0 of the denominator: 1.0 / distance
compute_fitness_Reciprocal(distance) == <<100, distance>>

\* FitnessFunction.compute_fitness: 1.0 / (1.0 + distance) as <<num, den>>
compute_fitness(distance) == <<100, 100 + distance>>

\* a comparison that also takes an equal fitness as an improvement: a <= b
FitLessOrEqual(a, b) == a[1] * b[2] <= b[1] * a[2]

\* a < b on fitness values (denominators are positive)
FitLess(a, b) == a[1] * b[2] < b[1] * a[2]

\* a fitness in millionths, for np.mean
Micro(f) == (f[1] * 1000000) \div f[2]

---------------------------------------------------------------------------
(* GeneticAlgorithm *)


\* the outcomes of the test  np.random.random() < rate
RateOutcomes(rate) == {u < rate : u \in {0, 99}}

Perms(S) ==
    {p \in [1..Cardinality(S) -> S] : \A i, j \in DOMAIN p : p[i] = p[j] => i = j}

\* the chromosomes np.random.shuffle can leave of the list  lst
Shuffles(lst) ==
    {[i \in DOMAIN lst |-> lst[p[i]]] : p \in Perms(DOMAIN lst)}

\* a creation that draws from 0 when there are fewer written strokes: randint(0, ...)
create_chromosome_FromZero(n_written, n_reference) ==
    LET diff == n_written - n_reference
    IN  IF diff = 0 THEN Shuffles([i \in 1..n_reference |-> i])
        ELSE IF diff > 0
        THEN Shuffles([i \in 1..n_reference |-> i] \o [i \in 1..diff |-> 0])
        ELSE [1..n_written -> 0..n_reference]

\* GeneticAlgorithm.create_chromosome: every chromosome it can return
create_chromosome(n_written, n_reference) ==
    LET diff == n_written - n_reference
    IN  IF diff = 0 THEN Shuffles([i \in 1..n_reference |-> i])
        ELSE IF diff > 0
        THEN Shuffles([i \in 1..n_reference |-> i] \o [i \in 1..diff |-> 0])
        ELSE [1..n_written -> 1..n_reference]

\* GeneticAlgorithm.evaluate_chromosome
evaluate_chromosome(w, chromosome, wf, rf) ==
    compute_fitness(compute_distance(w, wf, rf, chromosome))

\* index of the first entry of the list of pairs with the largest fitness (max with key)
RECURSIVE FirstMax(_, _, _)
FirstMax(fits, best, k) ==
    IF k > Len(fits) THEN best
    ELSE FirstMax(fits, IF FitLess(fits[best], fits[k]) THEN k ELSE best, k + 1)

\* the samples np.random.choice(n, size, replace=False) can return
Samples(n, size) ==
    {s \in [1..size -> 1..n] : \A i, j \in 1..size : s[i] = s[j] => i = j}

\* GeneticAlgorithm.tournament_selection: every chromosome it can return
\* (it raises ValueError unless 1 <= tournament_size <= len(population))
tournament_selection(pop, fits, tournament_size) ==
    {LET tf == [k \in 1..tournament_size |-> fits[s[k]]]
     IN  pop[s[FirstMax(tf, 1, 2)]] : s \in Samples(Len(pop), tournament_size)}

TournamentRaises(pop, tournament_size) ==
    tournament_size < 1 \/ tournament_size > Len(pop)

\* a crossover whose cut point may be 0: np.random.randint(0, len(parent1))
crossover_FromZero(parent1, parent2, crossover_rate) ==
    IF Len(parent1) < 2 THEN {<<parent1, parent2>>}
    ELSE UNION {IF c
                THEN {<<SubSeq(parent1, 1, point) \o SubSeq(parent2, point + 1, Len(parent2)),
                        SubSeq(parent2, 1, point) \o SubSeq(parent1, point + 1, Len(parent1))>>
                      : point \in 0..(Len(parent1) - 1)}
                ELSE {<<parent1, parent2>>}
                : c \in RateOutcomes(crossover_rate)}

\* GeneticAlgorithm.crossover: every pair of children it can return
crossover(parent1, parent2, crossover_rate) ==
    IF Len(parent1) < 2 THEN {<<parent1, parent2>>}
    ELSE UNION {IF c
                THEN {<<SubSeq(parent1, 1, point) \o SubSeq(parent2, point + 1, Len(parent2)),
                        SubSeq(parent2, 1, point) \o SubSeq(parent1, point + 1, Len(parent1))>>
                      : point \in 1..(Len(parent1) - 1)}
                ELSE {<<parent1, parent2>>}
                : c \in RateOutcomes(crossover_rate)}

\* body of the loop of mutate: the values gene i can have after it
\* a mutation drawing from one value too many: randint(0, n_reference + 2)
MutatedGeneWide(gene, mutation_rate, n_reference) ==
    UNION {IF hit THEN 0..(n_reference + 1) ELSE {gene} : hit \in RateOutcomes(mutation_rate)}

MutatedGene(gene, mutation_rate, n_reference) ==
    {IF hit THEN draw ELSE gene
     : hit \in RateOutcomes(mutation_rate), draw \in 0..n_reference}

\* GeneticAlgorithm.mutate: every chromosome it can return
mutate(chromosome, mutation_rate, n_reference) ==
    LET genes == UNION {MutatedGene(chromosome[i], mutation_rate, n_reference)
                        : i \in DOMAIN chromosome}
    IN  {mutated \in [DOMAIN chromosome -> genes] :
           \A i \in DOMAIN chromosome :
              mutated[i] \in MutatedGene(chromosome[i], mutation_rate, n_reference)}

\* one pass of the while loop of evolve: the pairs of children it can append
Offspring(g, pop, fits) ==
    UNION {UNION {mutate(ch[1], g.mutation_rate, g.n_reference)
                  \X mutate(ch[2], g.mutation_rate, g.n_reference)
                  : ch \in crossover(pr[1], pr[2], g.crossover_rate)}
           : pr \in tournament_selection(pop, fits, g.tournament_size)
                    \X tournament_selection(pop, fits, g.tournament_size)}

---------------------------------------------------------------------------
(* ErrorDetector.  Written and reference indices in the records are        *)
(* 0-based, as in the code; positions of a TLA+ sequence are 1-based.      *)

\* the elements of a finite set of integers as an ascending list
RECURSIVE Ascending(_)
Ascending(S) ==
    IF S = {} THEN <<>>
    ELSE LET m == MinOf(S) IN <<m>> \o Ascending(S \ {m})

RECURSIVE Concat(_)
Concat(lists) == IF lists = <<>> THEN <<>> ELSE Head(lists) \o Concat(Tail(lists))

\* keys of the dict ref_groups, in insertion order
GroupKeys(mapping) ==
    LET first == {i \in DOMAIN mapping : \A j \in 1..(i - 1) : mapping[j] # mapping[i]}
        order == Ascending(first)
    IN  [k \in DOMAIN order |-> mapping[order[k]]]

\* ref_groups[ref_idx]: the written indices mapped to ref_idx, ascending
Group(mapping, ref_idx) ==
    Ascending({i - 1 : i \in {j \in DOMAIN mapping : mapping[j] = ref_idx}})

\* a placeholder that reports every assignment
check_concatenated_redundant_Reports(mapping) ==
    <<[type |-> "REDUNDANT", written_indices |-> None, reference_index |-> None]>>

\* ErrorDetector._check_concatenated_redundant
check_concatenated_redundant(mapping) == <<>>

\* a loop body that lists the whole group, first member included, as extra
BrokenOrExtraAll(mapping, ref_idx) ==
    LET written_indices == Group(mapping, ref_idx)
    IN  IF ref_idx > 0 /\ Len(written_indices) > 1
        THEN <<[type |-> "EXTRA",
                written_indices |-> Some(written_indices),
                reference_index |-> Some(ref_idx - 1)]>>
        ELSE <<>>

\* a loop body that treats the group of unmatched strokes as duplicates too
BrokenOrExtraZero(mapping, ref_idx) ==
    LET written_indices == Group(mapping, ref_idx)
    IN  IF Len(written_indices) > 1
        THEN <<[type |-> "EXTRA",
                written_indices |-> Some(Tail(written_indices)),
                reference_index |-> Some(ref_idx - 1)]>>
        ELSE <<>>

\* a loop body that tolerates one surplus written stroke before it reads the
\* duplicates as extra strokes
BrokenOrExtraTolerant(mapping, ref_idx) ==
    LET written_indices == Group(mapping, ref_idx)
        keys == GroupKeys(mapping)
        used == Len(SelectSeq(keys, LAMBDA r : r > 0))
    IN  IF ref_idx > 0 /\ Len(written_indices) > 1
        THEN IF Len(mapping) > used + 1
             THEN <<[type |-> "EXTRA",
                     written_indices |-> Some(Tail(written_indices)),
                     reference_index |-> Some(ref_idx - 1)]>>
             ELSE <<[type |-> "BROKEN",
                     written_indices |-> Some(written_indices),
                     reference_index |-> Some(ref_idx - 1)]>>
        ELSE <<>>

\* body of the loop over ref_groups.items() in _check_broken_extra
BrokenOrExtra(mapping, ref_idx) ==
    LET written_indices == Group(mapping, ref_idx)
        keys == GroupKeys(mapping)
        used == Len(SelectSeq(keys, LAMBDA r : r > 0))
    IN  IF ref_idx > 0 /\ Len(written_indices) > 1
        THEN IF Len(mapping) > used
             THEN <<[type |-> "EXTRA",
                     written_indices |-> Some(Tail(written_indices)),
                     reference_index |-> Some(ref_idx - 1)]>>
             ELSE <<[type |-> "BROKEN",
                     written_indices |-> Some(written_indices),
                     reference_index |-> Some(ref_idx - 1)]>>
        ELSE <<>>

\* ErrorDetector._check_broken_extra
check_broken_extra(mapping) ==
    LET keys == GroupKeys(mapping)
    IN  (IF 0 \in Range(keys) /\ Len(Group(mapping, 0)) > 0
         THEN <<[type |-> "EXTRA",
                 written_indices |-> Some(Group(mapping, 0)),
                 reference_index |-> None]>>
         ELSE <<>>)
        \o Concat([k \in DOMAIN keys |-> BrokenOrExtra(mapping, keys[k])])

\* a missing check collecting the 1-based entries as they are
check_missing_OneBased(mapping, n_reference) ==
    LET matched_refs == {mapping[i] : i \in {j \in DOMAIN mapping : mapping[j] > 0}}
    IN  Concat([k \in 1..n_reference |->
                  IF (k - 1) \notin matched_refs
                  THEN <<[type |-> "MISSING",
                          written_indices |-> None,
                          reference_index |-> Some(k - 1)]>>
                  ELSE <<>>])

\* ErrorDetector._check_missing
check_missing(mapping, n_reference) ==
    LET matched_refs == {mapping[i] - 1 : i \in {j \in DOMAIN mapping : mapping[j] > 0}}
    IN  Concat([k \in 1..n_reference |->
                  IF (k - 1) \notin matched_refs
                  THEN <<[type |-> "MISSING",
                          written_indices |-> None,
                          reference_index |-> Some(k - 1)]>>
                  ELSE <<>>])

\* an orientation check that also reports a difference equal to the threshold
check_orientation_Inclusive(mapping, wf, rf, angle_threshold) ==
    Concat([i \in DOMAIN mapping |->
              IF mapping[i] = 0 \/ mapping[i] > Len(rf) THEN <<>>
              ELSE LET angle_diff == AngleDiff(wf[i].angle, rf[mapping[i]].angle)
                   IN  IF angle_diff >= angle_threshold
                       THEN <<[type |-> "ORIENTATION",
                               written_indices |-> Some(<<i - 1>>),
                               reference_index |-> Some(mapping[i] - 1),
                               angle_diff_degrees |-> angle_diff]>>
                       ELSE <<>>])

\* ErrorDetector._check_orientation
check_orientation(mapping, wf, rf, angle_threshold) ==
    Concat([i \in DOMAIN mapping |->
              IF mapping[i] = 0 \/ mapping[i] > Len(rf) THEN <<>>
              ELSE LET angle_diff == AngleDiff(wf[i].angle, rf[mapping[i]].angle)
                   IN  IF angle_diff > angle_threshold
                       THEN <<[type |-> "ORIENTATION",
                               written_indices |-> Some(<<i - 1>>),
                               reference_index |-> Some(mapping[i] - 1),
                               angle_diff_degrees |-> angle_diff]>>
                       ELSE <<>>])

\* an order check comparing 1-based reference numbers with 0-based positions
check_order_ZeroBased(mapping) ==
    Concat([i \in DOMAIN mapping |->
              IF mapping[i] > 0 /\ mapping[i] # i - 1
              THEN <<[type |-> "ORDER",
                      written_indices |-> Some(<<i - 1>>),
                      reference_index |-> Some(mapping[i] - 1),
                      expected_position |-> mapping[i] - 1]>>
              ELSE <<>>])

\* ErrorDetector._check_order
check_order(mapping) ==
    Concat([i \in DOMAIN mapping |->
              IF mapping[i] > 0 /\ mapping[i] # i
              THEN <<[type |-> "ORDER",
                      written_indices |-> Some(<<i - 1>>),
                      reference_index |-> Some(mapping[i] - 1),
                      expected_position |-> mapping[i] - 1]>>
              ELSE <<>>])

\* a detector that runs the order check before the orientation check
detect_errors_OrderFirst(mapping, wf, rf, angle_threshold) ==
    check_concatenated_redundant(mapping)
    \o check_broken_extra(mapping)
    \o check_missing(mapping, Len(rf))
    \o check_order(mapping)
    \o check_orientation(mapping, wf, rf, angle_threshold)

\* ErrorDetector.detect_errors
detect_errors(mapping, wf, rf, angle_threshold) ==
    check_concatenated_redundant(mapping)
    \o check_broken_extra(mapping)
    \o check_missing(mapping, Len(rf))
    \o check_orientation(mapping, wf, rf, angle_threshold)
    \o check_order(mapping)

---------------------------------------------------------------------------
(* Construction *)

\* defaults of GeneticAlgorithm.__init__ (rates in percent)
default_crossover_rate == 80
default_mutation_rate == 10
default_tournament_size == 3
default_convergence_generations == 10
\* default of ErrorDetector.__init__ and StrokeMatcher.__init__: pi / 4, in degrees
default_angle_threshold == 45

\* GeneticAlgorithm.__init__; population_size 0 stands for None and for 0 (both falsy)
GeneticAlgorithmInit(n_written, n_reference, fitness_func, population_size, max_generations, crossover_rate, mutation_rate, tournament_size, convergence_generations) ==
    [n_written |-> n_written,
     n_reference |-> n_reference,
     fitness_func |-> fitness_func,
     population_size |-> IF population_size # 0 THEN population_size ELSE 8 * n_written,
     max_generations |-> max_generations,
     crossover_rate |-> crossover_rate,
     mutation_rate |-> mutation_rate,
     tournament_size |-> tournament_size,
     convergence_generations |-> convergence_generations,
     best_fitness_history |-> <<>>,
     avg_fitness_history |-> <<>>,
     best_chromosome |-> None,
     best_fitness |-> <<0, 1>>]

\* FitnessFunction.__init__
FitnessFunctionInit(alpha, beta, gamma, epsilon) ==
    [alpha |-> alpha, beta |-> beta, gamma |-> gamma, epsilon |-> epsilon]

\* StrokeMatcher.__init__
StrokeMatcherInit(alpha, beta, gamma, epsilon, population_size, max_generations, angle_threshold, normalize) ==
    [alpha |-> alpha, beta |-> beta, gamma |-> gamma, epsilon |-> epsilon,
     population_size |-> population_size,
     max_generations |-> max_generations,
     angle_threshold |-> angle_threshold,
     normalize |-> normalize,
     fitness_func |-> FitnessFunctionInit(alpha, beta, gamma, epsilon)]

\* configurations of the model
Weights == {1}
PopSizes == (-1)..MaxPop
Generations == 0..MaxGen

MatcherConfigs ==
    {StrokeMatcherInit(a, a, a, a, p, g, default_angle_threshold, n)
     : a \in Weights, p \in PopSizes, g \in Generations, n \in BOOLEAN}

\* the locals of a call before it starts
NoCall ==
    /\ written_strokes = <<>>
    /\ reference_strokes = <<>>
    /\ written_features = <<>>
    /\ reference_features = <<>>
    /\ normalization_metadata = None
    /\ population = <<>>
    /\ new_population = <<>>
    /\ fitnesses = <<>>
    /\ best_chromosome = None
    /\ best_fitness = <<0, 1>>
    /\ generations_without_improvement = 0
    /\ generation = 0
    /\ result = None
    /\ error = None
    /\ calls = 0

\* a StrokeMatcher has been constructed
Init ==
    /\ pc = "idle"
    /\ mode = "match"
    /\ cfg \in MatcherConfigs
    /\ ga = None
    /\ NoCall

---------------------------------------------------------------------------
(* evolve *)

\* a start of evolve that keeps the best chromosome, the best fitness and the
\* stagnation counter it finds
EvolveStartKeepsBest(g) ==
    /\ population' \in [1..g.population_size -> create_chromosome(g.n_written, g.n_reference)]
    /\ new_population' = <<>>
    /\ fitnesses' = <<>>
    /\ UNCHANGED <<best_chromosome, best_fitness, generations_without_improvement>>
    /\ generation' = 0
    /\ result' = None
    /\ error' = None
    /\ pc' = "loop"

\* first statements of evolve: the initial population and the locals
EvolveStart(g) ==
    /\ population' \in [1..g.population_size -> create_chromosome(g.n_written, g.n_reference)]
    /\ new_population' = <<>>
    /\ fitnesses' = <<>>
    /\ best_chromosome' = None
    /\ best_fitness' = <<0, 1>>
    /\ generations_without_improvement' = 0
    /\ generation' = 0
    /\ result' = None
    /\ error' = None
    /\ pc' = "loop"

Raise(type, at) ==
    /\ error' = Some([type |-> type, at |-> at])
    /\ pc' = "error"

\* a truncation keeping the tail: new_population[-population_size:]
TruncateTail(new_pop, population_size) ==
    SubSeq(new_pop, Len(new_pop) - population_size + 1, Len(new_pop))

\* new_population[:population_size]
Truncate(new_pop, population_size) == SubSeq(new_pop, 1, population_size)

\* a while loop that goes on while the list is not longer than the population
WhileStepInclusive(new_pop) ==
    IF Len(new_pop) <= ga[1].population_size
    THEN /\ new_population' = new_pop
         /\ pc' = "breed"
         /\ UNCHANGED <<population, generation>>
    ELSE /\ population' = Truncate(new_pop, ga[1].population_size)
         /\ new_population' = <<>>
         /\ generation' = generation + 1
         /\ pc' = "loop"

\* the while loop of evolve is left with the list new_pop: the truncation
\* that ends the body of the for loop.  While the list is short the loop goes on.
WhileStep(new_pop) ==
    IF Len(new_pop) < ga[1].population_size
    THEN /\ new_population' = new_pop
         /\ pc' = "breed"
         /\ UNCHANGED <<population, generation>>
    ELSE /\ population' = Truncate(new_pop, ga[1].population_size)
         /\ new_population' = <<>>
         /\ generation' = generation + 1
         /\ pc' = "loop"

\* top of the for loop of evolve, and its body down to the while loop
\* (evaluation, statistics, elitism, convergence check)
Generation ==
    /\ pc = "loop"
    /\ IF generation >= ga[1].max_generations
       THEN /\ pc' = "returned"
            /\ UNCHANGED <<ga, population, new_population, fitnesses, best_chromosome,
                           best_fitness, generations_without_improvement, generation,
                           error>>
       ELSE /\ fitnesses' = [i \in DOMAIN population |->
                               evaluate_chromosome(ga[1].fitness_func, population[i],
                                                   written_features, reference_features)]
            /\ IF fitnesses' = <<>>
               THEN \* max() of an empty list
                    /\ Raise("ValueError", "evaluate")
                    /\ UNCHANGED <<ga, population, new_population, best_chromosome,
                                   best_fitness, generations_without_improvement,
                                   generation>>
               ELSE LET first == FirstMax(fitnesses', 1, 2)
                        gen_best_fitness == fitnesses'[first]
                        gen_avg_fitness ==
                            SumSeq([i \in DOMAIN population |-> Micro(fitnesses'[i])])
                                \div Len(population)
                        improved == FitLess(best_fitness, gen_best_fitness)
                    IN  /\ ga' = Some([ga[1] EXCEPT
                                 !.best_fitness_history = Append(@, gen_best_fitness),
                                 !.avg_fitness_history = Append(@, gen_avg_fitness)])
                        /\ best_fitness' = IF improved THEN gen_best_fitness
                                           ELSE best_fitness
                        /\ best_chromosome' = IF improved THEN Some(population[first])
                                              ELSE best_chromosome
                        /\ generations_without_improvement' =
                               IF improved THEN 0 ELSE generations_without_improvement + 1
                        /\ IF generations_without_improvement'
                                 >= ga[1].convergence_generations
                           THEN /\ pc' = "returned"
                                /\ UNCHANGED <<population, new_population, generation, error>>
                           ELSE IF best_chromosome' = None
                           THEN \* None.copy()
                                /\ Raise("AttributeError", "elitism")
                                /\ UNCHANGED <<population, new_population, generation>>
                           ELSE /\ WhileStep(<<best_chromosome'[1]>>)
                                /\ UNCHANGED error
    /\ UNCHANGED <<mode, cfg, calls, written_strokes, reference_strokes,
                   written_features, reference_features,
                   normalization_metadata, result>>

\* one pass of the body of the while loop of evolve: selection, crossover,
\* mutation, and the two children appended
Breed ==
    /\ pc = "breed"
    /\ IF TournamentRaises(population, ga[1].tournament_size)
       THEN /\ Raise("ValueError", "selection")
            /\ UNCHANGED <<population, new_population, generation>>
       ELSE /\ \E children \in Offspring(ga[1], population, fitnesses) :
                  WhileStep(new_population \o <<children[1], children[2]>>)
            /\ UNCHANGED error
    \* the list is rebuilt by the next generation before it is read again
    /\ fitnesses' = IF pc' = "breed" THEN fitnesses ELSE <<>>
    /\ UNCHANGED <<mode, cfg, calls, ga, written_strokes, reference_strokes,
                   written_features, reference_features,
                   normalization_metadata, best_chromosome, best_fitness,
                   generations_without_improvement, result>>

\* a return value that reports the 0-based number of the last generation
EvolveResultLastIndex(g) ==
    [mapping |-> best_chromosome,
     fitness |-> best_fitness,
     generations |-> Len(g.best_fitness_history) - 1,
     history |-> [best_fitness |-> g.best_fitness_history,
                  avg_fitness |-> g.avg_fitness_history]]

\* a return value read from the attributes of the object before evolve has
\* assigned them (self.best_chromosome, self.best_fitness)
EvolveResultFromAttributes(g) ==
    [mapping |-> g.best_chromosome,
     fitness |-> g.best_fitness,
     generations |-> Len(g.best_fitness_history),
     history |-> [best_fitness |-> g.best_fitness_history,
                  avg_fitness |-> g.avg_fitness_history]]

\* the value evolve returns
EvolveResult(g) ==
    [mapping |-> best_chromosome,
     fitness |-> best_fitness,
     generations |-> Len(g.best_fitness_history),
     history |-> [best_fitness |-> g.best_fitness_history,
                  avg_fitness |-> g.avg_fitness_history]]

\* end of evolve; in a match call, step 4 (detect_errors) and the result
Finish ==
    /\ pc = "returned"
    /\ ga' = Some([ga[1] EXCEPT !.best_chromosome = best_chromosome,
                                !.best_fitness = best_fitness])
    /\ LET ga_result == EvolveResult(ga[1])
       IN  IF mode = "ga"
           THEN /\ result' = Some(ga_result)
                /\ pc' = "done"
                /\ UNCHANGED error
           ELSE IF ga_result.mapping = None
           THEN \* enumerate(None) in _check_broken_extra
                /\ Raise("TypeError", "detect_errors")
                /\ UNCHANGED result
           ELSE /\ result' = Some([mapping |-> ga_result.mapping,
                                   fitness |-> ga_result.fitness,
                                   errors |-> detect_errors(ga_result.mapping[1],
                                                            written_features,
                                                            reference_features,
                                                            cfg.angle_threshold),
                                   generations |-> ga_result.generations,
                                   history |-> ga_result.history,
                                   written_features |-> written_features,
                                   reference_features |-> reference_features,
                                   normalization_metadata |-> normalization_metadata])
                /\ pc' = "done"
                /\ UNCHANGED error
    \* the population lists of evolve are dropped at its return
    /\ population' = <<>>
    /\ new_population' = <<>>
    /\ fitnesses' = <<>>
    /\ UNCHANGED <<mode, cfg, calls, written_strokes, reference_strokes,
                   written_features, reference_features,
                   normalization_metadata, best_chromosome, best_fitness,
                   generations_without_improvement, generation>>

---------------------------------------------------------------------------
(* StrokeMatcher.match *)

\* steps 1 to 3 of match, down to the initial population of evolve
MatchCall(written, reference) ==
    /\ mode = "match"
    /\ LET wn == IF cfg.normalize THEN Normalize(written)
                 ELSE [normalized |-> written, metadata |-> None]
           rn == IF cfg.normalize THEN Normalize(reference)
                 ELSE [normalized |-> reference, metadata |-> None]
           g == GeneticAlgorithmInit(Len(written), Len(reference),
                                     cfg.fitness_func, cfg.population_size,
                                     cfg.max_generations, default_crossover_rate,
                                     default_mutation_rate, default_tournament_size,
                                     default_convergence_generations)
       IN  /\ g.population_size <= MaxPop
           /\ written_strokes' = written
           /\ reference_strokes' = reference
           /\ written_features' = ExtractAll(wn.normalized)
           /\ reference_features' = ExtractAll(rn.normalized)
           /\ normalization_metadata' = [written |-> wn.metadata, reference |-> rn.metadata]
           /\ ga' = Some(g)
           /\ EvolveStart(g)
    /\ calls' = calls + 1
    /\ UNCHANGED <<mode, cfg>>

\* the first match call on a StrokeMatcher
Match(written, reference) ==
    /\ pc = "idle"
    /\ MatchCall(written, reference)

\* a later match call on the same StrokeMatcher, after a call returned or raised
MatchAgain(written, reference) ==
    /\ pc \in {"done", "error"}
    /\ calls < MaxCalls
    /\ MatchCall(written, reference)

---------------------------------------------------------------------------
(* GeneticAlgorithm used directly: GeneticAlgorithm(...) then evolve(...) *)

\* rates of a configuration, in percent: the defaults, one above 1, one below 0
CrossoverRates == {default_crossover_rate, 150}
MutationRates == {-50, default_mutation_rate}
TournamentSizes == 0..MaxPop
ConvergenceGenerations == 1..MaxConv

\* feature lists handed to evolve: the leading strokes of a character written
\* in the wrong order, against the leading strokes of the reference character
GaWritten == {SubSeq(<<StrokeB, StrokeA, StrokeArev, StrokeB>>, 1, n) : n \in 0..MaxW}
GaReferences == {SubSeq(Character, 1, n) : n \in 0..MaxGaRef}

\* a GeneticAlgorithm has been constructed
InitGA ==
    /\ pc = "idle"
    /\ mode = "ga"
    /\ cfg = None
    /\ \E nw \in 0..MaxW, nr \in 0..MaxGaRef, p \in PopSizes, g \in 0..(MaxGen + 1),
          cr \in CrossoverRates, mr \in MutationRates, t \in TournamentSizes,
          c \in ConvergenceGenerations :
          ga = Some(GeneticAlgorithmInit(nw, nr, FitnessFunctionInit(1, 1, 1, 1),
                                         p, g, cr, mr, t, c))
    /\ NoCall

\* a call of evolve, down to the initial population
EvolveCall(written, reference) ==
    /\ mode = "ga"
    /\ Len(written) = ga[1].n_written
    /\ Len(reference) = ga[1].n_reference
    /\ ga[1].population_size <= MaxPop
    /\ written_features' = ExtractAll(Normalize(written).normalized)
    /\ reference_features' = ExtractAll(Normalize(reference).normalized)
    /\ EvolveStart(ga[1])
    /\ calls' = calls + 1
    /\ UNCHANGED <<mode, cfg, ga, written_strokes, reference_strokes,
                   normalization_metadata>>

\* the first evolve call on a GeneticAlgorithm
Evolve(written, reference) ==
    /\ pc = "idle"
    /\ EvolveCall(written, reference)

\* a later evolve call on the same GeneticAlgorithm, after a call returned or raised
EvolveAgain(written, reference) ==
    /\ pc \in {"done", "error"}
    /\ calls < MaxCalls
    /\ EvolveCall(written, reference)

NextGA ==
    \/ \E w \in GaWritten, r \in GaReferences : Evolve(w, r)
    \/ Generation
    \/ Breed
    \/ Finish

SpecGA == InitGA /\ [][NextGA]_vars

\* sequences of evolve calls on one GeneticAlgorithm with the default rates,
\* a population of one or two and tournaments of one
InitReuse ==
    /\ InitGA
    /\ ga[1].crossover_rate = default_crossover_rate
    /\ ga[1].mutation_rate = default_mutation_rate
    /\ ga[1].population_size \in {1, 2}
    /\ ga[1].tournament_size = 1
    /\ ga[1].max_generations \in 1..MaxGen

NextReuse ==
    \/ NextGA
    \/ /\ pc \in {"done", "error"}
       /\ \E w \in GaWritten, r \in GaReferences : EvolveAgain(w, r)

SpecReuse == InitReuse /\ [][NextReuse]_vars

---------------------------------------------------------------------------
(* ErrorDetector used directly: ErrorDetector().detect_errors(...) *)

InitDetect ==
    /\ pc = "idle"
    /\ mode = "detect"
    /\ cfg = None
    /\ ga = None
    /\ NoCall

\* a call of detect_errors on the features of two stroke lists
Detect(mapping, written, reference) ==
    /\ pc = "idle"
    /\ mode = "detect"
    /\ Len(mapping) = Len(written)
    /\ written_features' = ExtractAll(Normalize(written).normalized)
    /\ reference_features' = ExtractAll(Normalize(reference).normalized)
    /\ result' = Some([mapping |-> Some(mapping),
                       errors |-> detect_errors(mapping, written_features',
                                                reference_features',
                                                default_angle_threshold)])
    /\ pc' = "done"
    /\ calls' = calls + 1
    /\ UNCHANGED <<mode, cfg, ga, written_strokes, reference_strokes,
                   normalization_metadata, population, new_population, fitnesses,
                   best_chromosome, best_fitness, generations_without_improvement,
                   generation, error>>

\* strokes handed to the detector: those a learner writes, and a diagonal
DetectStrokes == Strokes \cup {StrokeD}

DetectLists == SeqsOf(DetectStrokes, 0, MaxMapLen)

NextDetect ==
    /\ pc = "idle"
    /\ \E written \in DetectLists, reference \in References :
          \E mapping \in [1..Len(written) -> 0..Len(reference)] :
             Detect(mapping, written, reference)

SpecDetect == InitDetect /\ [][NextDetect]_vars

---------------------------------------------------------------------------
(* match calls on a character written with one of its strokes omitted *)

\* the reference character, one stroke longer than the longest reference of Spec
OmittedReference == SubSeq(Character, 1, MaxR + 1)

\* positions of the stroke left out
OmittedAt == {2}

\* the character with one stroke left out, the others in order
OmittedWritten ==
    {[i \in 1..MaxR |-> OmittedReference[IF i < k THEN i ELSE i + 1]] : k \in OmittedAt}

InitOmitted ==
    /\ Init
    /\ cfg.normalize
    /\ cfg.population_size \in {1, MaxPop}
    /\ cfg.max_generations >= 1

NextOmitted ==
    \/ \E w \in OmittedWritten : Match(w, OmittedReference)
    \/ Generation
    \/ Breed
    \/ Finish

SpecOmitted == InitOmitted /\ [][NextOmitted]_vars

---------------------------------------------------------------------------
(* FitnessFunction used directly: FitnessFunction(...).compute_distance(...) *)

\* weights of a FitnessFunction
FitnessWeights == {-1, 0, 1}

\* written strokes of a direct call
FitnessLists == SeqsOf({StrokeA, StrokeArev, StrokeH}, 0, MaxW)

\* entries of an assignment handed over directly, for R reference strokes
MaxOutside == 2
GeneValues(n_reference) == (-MaxOutside)..(n_reference + 1)

InitFitness ==
    /\ pc = "idle"
    /\ mode = "fitness"
    /\ cfg \in {FitnessFunctionInit(a, b, g, e) :
                    a \in FitnessWeights, b \in FitnessWeights,
                    g \in FitnessWeights, e \in FitnessWeights}
    /\ ga = None
    /\ NoCall

\* compute_distance on the features of two stroke lists, then compute_fitness
Distance(mapping, written, reference) ==
    /\ pc = "idle"
    /\ mode = "fitness"
    /\ Len(mapping) = Len(written)
    /\ written_features' = ExtractAll(written)
    /\ reference_features' = ExtractAll(reference)
    /\ IF DistanceRaises(reference_features', mapping)
       THEN /\ Raise("IndexError", "compute_distance")
            /\ result' = Some([mapping |-> Some(mapping)])
       ELSE LET distance == compute_distance(cfg, written_features',
                                             reference_features', mapping)
            IN  /\ result' = Some([mapping |-> Some(mapping),
                                   distance |-> distance,
                                   fitness |-> compute_fitness(distance)])
                /\ pc' = "done"
                /\ UNCHANGED error
    /\ calls' = calls + 1
    /\ UNCHANGED <<mode, cfg, ga, written_strokes, reference_strokes,
                   normalization_metadata, population, new_population, fitnesses,
                   best_chromosome, best_fitness, generations_without_improvement,
                   generation>>

NextFitness ==
    /\ pc = "idle"
    /\ \E written \in FitnessLists, reference \in References :
          \E mapping \in [1..Len(written) -> GeneValues(Len(reference))] :
             Distance(mapping, written, reference)

SpecFitness == InitFitness /\ [][NextFitness]_vars

---------------------------------------------------------------------------
(* The operators called one at a time: normalize, tournament_selection,   *)
(* crossover, mutate.  A call is the list objects handed to it as they are *)
(* after the call (args) together with the value it returns (returned).    *)

\* StrokeNormalizer.normalize writes into norm_stroke, a copy of each stroke
normalize_call(strokes) ==
    [args |-> <<strokes>>, returned |-> Normalize(strokes)]

\* GeneticAlgorithm.tournament_selection returns winner[0].copy()
tournament_selection_call(pop, fits, tournament_size) ==
    {[args |-> <<pop, fits>>, returned |-> winner]
     : winner \in tournament_selection(pop, fits, tournament_size)}

\* GeneticAlgorithm.crossover builds its children from slices and copies
crossover_call(parent1, parent2, crossover_rate) ==
    {[args |-> <<parent1, parent2>>, returned |-> children]
     : children \in crossover(parent1, parent2, crossover_rate)}

\* a mutation that writes into the list it was given: mutated = chromosome
mutate_call_InPlace(chromosome, mutation_rate, n_reference) ==
    {[args |-> <<mutated>>, returned |-> mutated]
     : mutated \in mutate(chromosome, mutation_rate, n_reference)}

\* GeneticAlgorithm.mutate writes into mutated, a copy of the chromosome
mutate_call(chromosome, mutation_rate, n_reference) ==
    {[args |-> <<chromosome>>, returned |-> mutated]
     : mutated \in mutate(chromosome, mutation_rate, n_reference)}

\* fitness values of a population handed to tournament_selection
FitnessValues == {compute_fitness(0), compute_fitness(100)}

\* a GeneticAlgorithm and a StrokeNormalizer have been constructed
InitOperators ==
    /\ pc = "idle"
    /\ mode = "operators"
    /\ cfg = None
    /\ \E nw \in 0..MaxW, nr \in 0..MaxR, cr \in CrossoverRates, mr \in MutationRates,
          t \in 1..MaxPop :
          ga = Some(GeneticAlgorithmInit(nw, nr, FitnessFunctionInit(1, 1, 1, 1),
                                         MaxPop, 1, cr, mr, t,
                                         default_convergence_generations))
    /\ NoCall

\* the frame of an operator call: what it was given, how that is afterwards,
\* and what it returned
OperatorCall(op, before, call) ==
    /\ result' = Some([op |-> op, before |-> before,
                       args |-> call.args, returned |-> call.returned])
    /\ pc' = "done"
    /\ calls' = calls + 1
    /\ UNCHANGED <<mode, cfg, ga, written_features, reference_features,
                   normalization_metadata, new_population, generations_without_improvement,
                   generation, error>>

\* normalize(strokes) on the caller's list written_strokes
NormalizeCall(strokes) ==
    /\ pc = "idle"
    /\ mode = "operators"
    /\ LET call == normalize_call(strokes)
       IN  /\ written_strokes' = call.args[1]
           /\ OperatorCall("normalize", <<strokes>>, call)
    /\ UNCHANGED <<reference_strokes, population, fitnesses, best_chromosome, best_fitness>>

\* tournament_selection(population, fitnesses) on the current population, after
\* evolve stored a copy of its best chromosome (best_chromosome = ... .copy())
TournamentSelection(pop, fits) ==
    /\ pc = "idle"
    /\ mode = "operators"
    /\ Len(pop) = ga[1].population_size
    /\ Len(fits) = Len(pop)
    /\ \E call \in tournament_selection_call(pop, fits, ga[1].tournament_size) :
          /\ population' = call.args[1]
          /\ fitnesses' = call.args[2]
          /\ OperatorCall("tournament_selection", <<pop, fits>>, call)
    /\ LET first == FirstMax(fits, 1, 2)
       IN  /\ best_chromosome' = Some(pop[first])
           /\ best_fitness' = fits[first]
    /\ UNCHANGED <<written_strokes, reference_strokes>>

\* crossover(parent1, parent2) on two chromosomes of the population
Crossover(parent1, parent2) ==
    /\ pc = "idle"
    /\ mode = "operators"
    /\ \E call \in crossover_call(parent1, parent2, ga[1].crossover_rate) :
          /\ population' = <<call.args[1], call.args[2]>>
          /\ OperatorCall("crossover", <<parent1, parent2>>, call)
    /\ UNCHANGED <<written_strokes, reference_strokes, fitnesses, best_chromosome,
                   best_fitness>>

\* mutate(chromosome) on a chromosome of the population
Mutate(chromosome) ==
    /\ pc = "idle"
    /\ mode = "operators"
    /\ \E call \in mutate_call(chromosome, ga[1].mutation_rate, ga[1].n_reference) :
          /\ population' = <<call.args[1]>>
          /\ OperatorCall("mutate", <<chromosome>>, call)
    /\ UNCHANGED <<written_strokes, reference_strokes, fitnesses, best_chromosome,
                   best_fitness>>

\* chromosomes of W genes over R references, as evolve can hold them
Chromosomes(n_written, n_reference) == [1..n_written -> 0..n_reference]

NextOperators ==
    \/ /\ pc = "idle"
       /\ \E strokes \in WrittenLists : NormalizeCall(strokes)
    \/ /\ pc = "idle"
       /\ \E pop \in [1..ga[1].population_size
                        -> create_chromosome(ga[1].n_written, ga[1].n_reference)],
             fits \in [1..ga[1].population_size -> FitnessValues] :
             TournamentSelection(pop, fits)
    \/ /\ pc = "idle"
       /\ \E parent1, parent2 \in Chromosomes(ga[1].n_written, ga[1].n_reference) :
             Crossover(parent1, parent2)
    \/ /\ pc = "idle"
       /\ \E chromosome \in Chromosomes(ga[1].n_written, ga[1].n_reference) :
             Mutate(chromosome)

SpecOperators == InitOperators /\ [][NextOperators]_vars

---------------------------------------------------------------------------
(* the matcher and the detector together: match calls and direct detect_errors calls *)

InitAll == Init \/ InitDetect

---------------------------------------------------------------------------

Next ==
    \/ \E w \in WrittenLists, r \in References : Match(w, r)
    \/ Generation
    \/ Breed
    \/ Finish

Spec == Init /\ [][Next]_vars

\* sequences of match calls on one StrokeMatcher
NextCalls ==
    \/ Next
    \/ /\ pc \in {"done", "error"}
       /\ \E w \in WrittenLists, r \in References : MatchAgain(w, r)

SpecCalls == Init /\ [][NextCalls]_vars

NextAll == Next \/ NextDetect

SpecAll == InitAll /\ [][NextAll]_vars


---------------------------------------------------------------------------
(* Properties *)

\* the call in progress or finished, in the terms of the specification
W == Len(written_features)
R == Len(reference_features)
Started == ga # None
Returned == pc = "done" /\ result # None
Identity(n) == [i \in 1..n |-> i]
IsAssignment(c) == Len(c) = W /\ \A k \in DOMAIN c : c[k] \in 0..R

\* C1: in a match call with W >= 1 and R >= 1, every chromosome of every
\* population (initial, or built by elitism, crossover, mutation and
\* truncation) and the assignment returned have length W and entries in 0..R.
C1_AssignmentShape ==
    (mode = "match" /\ Started /\ W >= 1 /\ R >= 1) =>
        /\ \A i \in DOMAIN population : IsAssignment(population[i])
        /\ \A i \in DOMAIN new_population : IsAssignment(new_population[i])
        /\ best_chromosome # None => IsAssignment(best_chromosome[1])
        /\ result # None => IsAssignment(result[1].mapping[1])

\* a match call returned an assignment no initial permutation contains:
\* crossover or mutation built it, and truncation kept it
C1_Witness ==
    /\ mode = "match" /\ Returned
    /\ W = 2 /\ R = 2
    /\ result[1].mapping[1] = <<1, 1>>

C3_HistoryMonotone ==
    (mode = "ga" /\ Started) =>
        LET h == ga[1].best_fitness_history
        IN  \A k \in 1..(Len(h) - 1) : ~FitLess(h[k + 1], h[k])

\* an even population, truncated from three chromosomes to two, whose best
\* fitness rose strictly in the second generation
C3_Witness ==
    /\ mode = "ga" /\ Started
    /\ ga[1].population_size = 2
    /\ Len(ga[1].best_fitness_history) >= 2
    /\ FitLess(ga[1].best_fitness_history[1], ga[1].best_fitness_history[2])

\* the assignment and the error list of a direct detect_errors call
Detected == mode = "detect" /\ Returned
Indices(errors, type) ==
    {k \in DOMAIN errors : errors[k].type = type}

\* C4: for every assignment m with entries in 0..R the classifier emits one
\* MISSING record per reference index that no positive entry of m names, and
\* none for the others: R - |{m[i] - 1 : m[i] > 0}| records in all.
C4_MissingCount ==
    Detected =>
        LET m == result[1].mapping[1]
            errors == result[1].errors
            matched == {m[i] - 1 : i \in {j \in DOMAIN m : m[j] > 0}}
            missing == Indices(errors, "MISSING")
        IN  /\ Cardinality(missing) = R - Cardinality(matched)
            /\ \A k \in 0..(R - 1) :
                  Cardinality({e \in missing : errors[e].reference_index = Some(k)})
                      = IF k \in matched THEN 0 ELSE 1

\* both written strokes on reference 0 of two: reference 1 is missing
C4_Witness ==
    /\ Detected
    /\ R = 2
    /\ result[1].mapping[1] = <<1, 1>>
    /\ Cardinality(Indices(result[1].errors, "MISSING")) = 1

\* C5: every written index i with m[i] = 0 is listed by exactly one EXTRA
\* record, also when duplicate mappings add EXTRA records of their own.
C5_UnmatchedOnce ==
    Detected =>
        LET m == result[1].mapping[1]
            errors == result[1].errors
        IN  \A i \in DOMAIN m :
               m[i] = 0 =>
                  Cardinality({e \in Indices(errors, "EXTRA") :
                                 (i - 1) \in Range(errors[e].written_indices[1])}) = 1

\* an unmatched stroke beside a duplicate mapping: two EXTRA records
C5_Witness ==
    /\ Detected
    /\ result[1].mapping[1] = <<0, 1, 1>>
    /\ Cardinality(Indices(result[1].errors, "EXTRA")) = 2

\* C6 as stated: a match call with W = 0 and R >= 1 (population size left to
\* its default or positive, max_generations >= 1) ends with the GA returning
\* the empty assignment, fitness 1 and zero generations.
C6_EmptyWritten ==
    (/\ mode = "match" /\ Started /\ W = 0 /\ R >= 1
     /\ cfg.population_size >= 0 /\ cfg.max_generations >= 1) =>
        /\ pc # "error"
        /\ Returned =>
              /\ result[1].mapping[1] = <<>>
              /\ result[1].fitness = <<100, 100>>
              /\ result[1].generations = 0

\* C7 as stated: a match call with an empty reference list is rejected
\* before the GA starts, and produces no result.
C7_EmptyReferenceRejected ==
    (mode = "match" /\ Started /\ R = 0) =>
        /\ population = <<>>
        /\ pc \notin {"loop", "breed", "returned", "done"}
        /\ result = None

\* C7 amended: a match call with an empty reference list is not rejected.
\* With W >= 1, a population size of 1 or at least the tournament size, and
\* max_generations >= 1 it raises nothing and returns the all-zero assignment
\* with exactly one error record: an EXTRA listing every written index.
C7_EmptyReferenceAllExtra ==
    (/\ mode = "match" /\ Started /\ R = 0 /\ W >= 1
     /\ ga[1].population_size = 1 \/ ga[1].population_size >= ga[1].tournament_size
     /\ ga[1].max_generations >= 1) =>
        /\ pc # "error"
        /\ Returned =>
              /\ result[1].mapping[1] = [i \in 1..W |-> 0]
              /\ result[1].errors = <<[type |-> "EXTRA",
                                       written_indices |-> Some([i \in 1..W |-> i - 1]),
                                       reference_index |-> None]>>

\* two written strokes against no reference, through two generations
C7_Witness ==
    /\ mode = "match" /\ Returned
    /\ R = 0 /\ W = 2
    /\ result[1].generations = 2
    /\ Len(result[1].errors) = 1

\* configurations C8 calls invalid (a population size of 0 is stored as 8 * W)
InvalidConfig(g) ==
    \/ g.population_size < 0
    \/ g.tournament_size < 1
    \/ g.tournament_size > g.population_size
    \/ g.crossover_rate < 0 \/ g.crossover_rate > 100
    \/ g.mutation_rate < 0 \/ g.mutation_rate > 100

\* C8 as stated: a GeneticAlgorithm with an invalid configuration never
\* starts: evolve creates no population and evaluates no generation.
C8_InvalidConfigRejected ==
    (mode = "ga" /\ Started /\ InvalidConfig(ga[1])) =>
        /\ pc \in {"idle", "error"}
        /\ population = <<>>
        /\ ga[1].best_fitness_history = <<>>

\* C8 amended: construction rejects nothing.  evolve raises only
\*  - ValueError in the first evaluation when the population is empty
\*    (population size negative, or 0 with W = 0), before any generation is
\*    recorded, and
\*  - ValueError in the first tournament selection when the tournament size
\*    is outside 1..P and P >= 2, after generation 0 was evaluated and recorded.
\* Rates outside [0, 1] raise nothing, and neither does any tournament size
\* when P = 1.
C8_LateOrNoRejection ==
    (mode = "ga" /\ Started) =>
        LET g == ga[1]
            T == g.tournament_size
            P == g.population_size
        IN  /\ pc = "error" =>
               \/ /\ error[1] = [type |-> "ValueError", at |-> "evaluate"]
                  /\ P <= 0
                  /\ g.best_fitness_history = <<>>
               \/ /\ error[1] = [type |-> "ValueError", at |-> "selection"]
                  /\ T < 1 \/ T > P
                  /\ P >= 2
                  /\ Len(g.best_fitness_history) = 1
            /\ (P >= 1 /\ (P = 1 \/ (1 <= T /\ T <= P))) => pc # "error"
            /\ (P >= 2 /\ (T < 1 \/ T > P) /\ g.max_generations >= 1) => pc # "done"

\* a tournament larger than the population, found only at the first
\* selection, with generation 0 already in the history and rates outside [0, 1]
C8_Witness ==
    /\ mode = "ga" /\ Started
    /\ pc = "error"
    /\ error[1].at = "selection"
    /\ ga[1].tournament_size > ga[1].population_size
    /\ ga[1].crossover_rate > 100 /\ ga[1].mutation_rate < 0
    /\ Len(ga[1].best_fitness_history) = 1

\* assignments of the broken-stroke shape: W = R + 1, every reference used,
\* one of them by two written strokes
BrokenShape(m, n_reference) ==
    /\ Len(m) = n_reference + 1
    /\ \A k \in 1..n_reference : k \in Range(m)
    /\ 0 \notin Range(m)

\* C10 as stated: an assignment of the broken-stroke shape (such as
\* [1, 2, 2] with R = 2) gets exactly one BROKEN record, naming the two
\* fragments and their reference, and no EXTRA record.
C10_BrokenReported ==
    (Detected /\ R >= 1 /\ BrokenShape(result[1].mapping[1], R)) =>
        LET m == result[1].mapping[1]
            errors == result[1].errors
            broken == Indices(errors, "BROKEN")
        IN  /\ Cardinality(broken) = 1
            /\ Indices(errors, "EXTRA") = {}
            /\ \A e \in broken :
                  /\ Len(errors[e].written_indices[1]) = 2
                  /\ \A i \in Range(errors[e].written_indices[1]) :
                        Some(m[i + 1] - 1) = errors[e].reference_index

ZeroFreeCheaper ==
    \A c \in [1..W -> 1..R] :
       compute_distance(cfg.fitness_func, written_features, reference_features, c) < 100000

C13_OrderRecords ==
    Detected =>
        LET m == result[1].mapping[1]
            errors == result[1].errors
            order == Indices(errors, "ORDER")
        IN  /\ \A p \in DOMAIN m :
                  Cardinality({e \in order : errors[e].written_indices = Some(<<p - 1>>)})
                      = IF m[p] \in 1..R /\ m[p] # p THEN 1 ELSE 0
            /\ \A e \in order : Len(errors[e].written_indices[1]) = 1
            /\ (W = 2 /\ R = 2 /\ m = <<2, 1>>) =>
                  /\ Indices(errors, "MISSING") = {}
                  /\ Indices(errors, "EXTRA") = {}

\* the swapped pair: an ORDER record for each of the two written indices
C13_Witness ==
    /\ Detected
    /\ W = 2 /\ R = 2
    /\ result[1].mapping[1] = <<2, 1>>
    /\ Cardinality(Indices(result[1].errors, "ORDER")) = 2

\* a stroke with its points in reverse order
Reversed(stroke) ==
    [c \in DOMAIN stroke |->
       [k \in DOMAIN stroke[c] |-> stroke[c][Len(stroke[c]) + 1 - k]]]

\* the angle threshold of the detector in use
Threshold == IF mode = "match" THEN cfg.angle_threshold ELSE default_angle_threshold

\* C14: for every written index i with m[i] in 1..R the classifier emits an
\* ORIENTATION record for i exactly when the shortest-arc angle difference
\* between written stroke i and reference stroke m[i] - 1 is strictly greater
\* than the threshold (one record, carrying that difference), and none for
\* an index with m[i] = 0; the difference lies in [0, 180] degrees.  A single
\* stroke written in reverse (W = R = 1) is matched as [1] with exactly one
\* ORIENTATION record, of 180 degrees.
C14_OrientationRecords ==
    (mode \in {"match", "detect"} /\ Returned) =>
        LET m == result[1].mapping[1]
            errors == result[1].errors
            orient == Indices(errors, "ORIENTATION")
            diff(p) == AngleDiff(written_features[p].angle, reference_features[m[p]].angle)
        IN  /\ \A p \in DOMAIN m :
                  /\ m[p] \in 1..R => diff(p) \in 0..180
                  /\ Cardinality({e \in orient : errors[e].written_indices = Some(<<p - 1>>)})
                        = IF m[p] \in 1..R /\ diff(p) > Threshold THEN 1 ELSE 0
            /\ \A e \in orient :
                  LET p == errors[e].written_indices[1][1] + 1
                  IN  /\ Len(errors[e].written_indices[1]) = 1
                      /\ errors[e].reference_index = Some(m[p] - 1)
                      /\ errors[e].angle_diff_degrees = diff(p)
            /\ (mode = "match" /\ W = 1 /\ R = 1
                  /\ written_strokes = <<Reversed(reference_strokes[1])>>) =>
                  /\ m = <<1>>
                  /\ Cardinality(orient) = 1
                  /\ \A e \in orient : errors[e].angle_diff_degrees = 180

\* match on the first reference stroke written from its end to its start
C14_Witness ==
    /\ mode = "match" /\ Returned
    /\ reference_strokes = <<StrokeA>>
    /\ written_strokes = <<StrokeArev>>
    /\ result[1].mapping[1] = <<1>>
    /\ Cardinality(Indices(result[1].errors, "ORIENTATION")) = 1

\* C15: in every result returned by match, generations is at least 1 and
\* the best-fitness and mean-fitness histories both have exactly that length.
C15_GenerationsAndHistory ==
    (mode = "match" /\ Returned) =>
        /\ result[1].generations >= 1
        /\ Len(result[1].history.best_fitness) = result[1].generations
        /\ Len(result[1].history.avg_fitness) = result[1].generations

\* a match call that ran two generations on two strokes
C15_Witness ==
    /\ mode = "match" /\ Returned
    /\ W = 2 /\ R = 2
    /\ result[1].generations = 2
    /\ Len(result[1].history.avg_fitness) = 2

\* the weights, distance and fitness of a direct compute_distance call
FitnessDone == mode = "fitness" /\ pc = "done"
NonnegativeWeights ==
    cfg.alpha >= 0 /\ cfg.beta >= 0 /\ cfg.gamma >= 0 /\ cfg.epsilon >= 0

C17_OutsideIsUnmatched ==
    (mode = "fitness" /\ pc \in {"done", "error"}) =>
        /\ pc = "done"
        /\ LET m == result[1].mapping[1]
           IN  result[1].distance =
                  SumSeq([i \in DOMAIN m |->
                            IF m[i] \in 1..R
                            THEN GeneDistance(cfg, written_features, reference_features,
                                              i, m[i])
                            ELSE 100000])

\* the fitness the configured FitnessFunction gives chromosome c on the
\* features of the call in progress
FitnessNow(c) ==
    evaluate_chromosome(cfg.fitness_func, c, written_features, reference_features)

\* C18: in any sequence of match calls on one StrokeMatcher, the state of a
\* call holds nothing of an earlier call.  The GA object, the features and
\* the counters belong to this call's inputs; the histories hold one entry
\* per generation evaluated in this call; the best chromosome and fitness are
\* absent until this call's first evaluation and are otherwise a chromosome
\* of this call with its fitness on this call's features; no result or error
\* of an earlier call is visible while the call runs; and the result is made
\* of this call's values only.
C18_NoCrossCallState ==
    (mode = "match" /\ calls >= 1) =>
        LET g == ga[1]
            h == g.best_fitness_history
            evaluated == IF pc = "loop" THEN generation ELSE generation + 1
        IN  /\ g.n_written = Len(written_strokes) /\ W = Len(written_strokes)
            /\ g.n_reference = Len(reference_strokes) /\ R = Len(reference_strokes)
            /\ Len(g.avg_fitness_history) = Len(h)
            /\ Len(h) <= g.max_generations
            /\ pc \in {"loop", "breed"} => Len(h) = evaluated
            /\ (best_chromosome = None) <=> (h = <<>>)
            /\ best_chromosome = None =>
                  best_fitness = <<0, 1>> /\ generations_without_improvement = 0
            /\ best_chromosome # None =>
                  /\ Len(best_chromosome[1]) = W
                  /\ best_fitness = FitnessNow(best_chromosome[1])
                  /\ \A k \in DOMAIN h : ~FitLess(best_fitness, h[k])
                  /\ generations_without_improvement < Len(h)
            /\ pc \in {"loop", "breed", "returned"} => result = None /\ error = None
            /\ Returned =>
                  /\ result[1].mapping = best_chromosome
                  /\ result[1].fitness = FitnessNow(result[1].mapping[1])
                  /\ result[1].generations = Len(h)
                  /\ result[1].history.best_fitness = h
                  /\ result[1].written_features = written_features
                  /\ result[1].reference_features = reference_features

\* a second call, on one stroke, returned after a first call on two strokes
\* had run on the same StrokeMatcher
C18_Witness ==
    /\ mode = "match" /\ Returned
    /\ calls = 2
    /\ W = 1 /\ R = 1
    /\ result[1].mapping[1] = <<1>>
    /\ result[1].generations = cfg.max_generations

\* configurations under which evolve evaluates and selects without raising
RunsConfig(g) ==
    /\ g.population_size >= 1
    /\ g.population_size = 1
          \/ (1 <= g.tournament_size /\ g.tournament_size <= g.population_size)

\* an evolve call in the scope of C19
C19_Scope ==
    /\ mode = "ga" /\ calls >= 1
    /\ ga[1].n_written >= 1
    /\ ga[1].max_generations >= 1
    /\ RunsConfig(ga[1])

\* the stagnation counter as the history gives it: the number of generations
\* since the first one that reached the best fitness of the history
StagnationOf(h) ==
    LET lt(a, b) == a[1] * b[2] < b[1] * a[2]
        first == CHOOSE k \in DOMAIN h :
                    /\ \A j \in DOMAIN h : ~lt(h[k], h[j])
                    /\ \A j \in 1..(k - 1) : lt(h[j], h[k])
    IN  Len(h) - first

C19_Safety ==
    C19_Scope =>
        LET g == ga[1]
            h == g.best_fitness_history
            stagnation == generations_without_improvement
        IN  /\ pc # "error"
            /\ Len(h) <= g.max_generations
            /\ h # <<>> => stagnation = StagnationOf(h)
            /\ stagnation <= g.convergence_generations
            /\ (pc = "breed" \/ (pc = "loop" /\ generation >= 1)) =>
                  stagnation < g.convergence_generations
            /\ pc \in {"returned", "done"} =>
                  /\ Len(h) >= 1
                  /\ Len(h) < g.max_generations =>
                        stagnation = g.convergence_generations

\* steps evolve can still take, at most: generations left, and within a
\* generation the passes of the while loop left
C19_Rank ==
    LET K == ga[1].population_size + 3
    IN  CASE pc = "loop" -> (ga[1].max_generations - generation) * K + (K - 1)
          [] pc = "breed" -> (ga[1].max_generations - generation) * K
                                + (ga[1].population_size + 1 - Len(new_population))
          [] pc = "returned" -> 1
          [] OTHER -> 0

\* the call has returned or its next step is possible: the top of the for
\* loop and the return need nothing, a pass of the while loop needs parents
\* to select and children to append
C19_CanStep ==
    /\ pc \in {"loop", "breed", "returned", "done"}
    /\ pc = "breed" => Offspring(ga[1], population, fitnesses) # {}

C20_ElitePresent ==
    (mode = "ga" /\ calls >= 1 /\ pc = "loop" /\ generation >= 1) =>
        /\ best_chromosome # None
        /\ Len(population) = ga[1].population_size
        /\ population[1] = best_chromosome[1]
        /\ \A k \in DOMAIN ga[1].best_fitness_history :
              ~FitLess(best_fitness, ga[1].best_fitness_history[k])

\* the third generation of a population of two is about to start: the elite
\* leads it, beside a child that differs from it
C20_Witness ==
    /\ mode = "ga" /\ pc = "loop"
    /\ generation = 2
    /\ ga[1].max_generations = 3
    /\ ga[1].population_size = 2
    /\ population[1] = best_chromosome[1]
    /\ population[2] # best_chromosome[1]


\* the non-zero reference numbers that more than one written stroke is mapped to
Duplicated(m) ==
    {r \in Range(m) : r > 0 /\ Cardinality({i \in DOMAIN m : m[i] = r}) > 1}

\* U: the number of distinct non-zero reference numbers the assignment uses
Used(m) == Cardinality({r \in Range(m) : r > 0})

\* the written indices (0-based, ascending) mapped to reference number r
WrittenOn(m, r) == Ascending({i - 1 : i \in {j \in DOMAIN m : m[j] = r}})

Classified == mode \in {"match", "detect"} /\ Returned

InitialPopulation == Started /\ generation = 0 /\ pc \in {"loop", "breed"}

\* how often the value v occurs in the chromosome c
Count(c, v) == Cardinality({i \in DOMAIN c : c[i] = v})

\* C23: every chromosome of the initial population has W entries and
\*  - if W = R it is a permutation of 1..R;
\*  - if W > R it contains each of 1..R exactly once and exactly W - R zeros;
\*  - if W < R all its entries are in 1..R: it contains no zero.
C23_InitialChromosomes ==
    InitialPopulation =>
        \A k \in DOMAIN population :
           LET c == population[k]
           IN  /\ Len(c) = W
               /\ Range(c) \subseteq 0..R
               /\ W = R => \A r \in 1..R : Count(c, r) = 1
               /\ W > R => /\ \A r \in 1..R : Count(c, r) = 1
                           /\ Count(c, 0) = W - R
               /\ W < R => Count(c, 0) = 0

\* two written strokes against one reference: the unmatched stroke first in
\* one chromosome of the initial population, last in another
C23_Witness ==
    /\ InitialPopulation
    /\ mode = "match"
    /\ W = 2 /\ R = 1
    /\ Len(population) = 3
    /\ population[1] = <<0, 1>>
    /\ population[2] = <<1, 0>>

\* the call of one operator has returned
Called(op) == mode = "operators" /\ pc = "done" /\ result # None /\ result[1].op = op

\* C24: mutate returns a chromosome of the same length as the one it was
\* given, and every gene it changed has a value in 0..R.  (That both 0 and R
\* can be drawn, and that a chromosome containing 0 arises from a zero-free
\* one when W <= R, is shown by the state C24_Witness.)
C24_MutateRange ==
    Called("mutate") =>
        LET chromosome == result[1].before[1]
            mutated == result[1].returned
        IN  /\ Len(mutated) = Len(chromosome)
            /\ \A i \in DOMAIN mutated :
                  mutated[i] # chromosome[i] => mutated[i] \in 0..ga[1].n_reference

\* W = R = 2: the permutation [1, 2], a chromosome of the initial population,
\* mutated into [2, 0]: one gene drawn as R, the other as 0
C24_Witness ==
    /\ Called("mutate")
    /\ ga[1].n_written <= ga[1].n_reference
    /\ ga[1].n_reference = 2
    /\ result[1].before[1] \in create_chromosome(ga[1].n_written, ga[1].n_reference)
    /\ result[1].before[1] = <<1, 2>>
    /\ result[1].returned = <<2, 0>>

\* C25: crossover of two parents of length W returns two children of length W.
\* For W < 2 they are copies of the parents.  Otherwise there is a cut point c
\* in 1..W (c = W: plain copies) with child1 = parent1[:c] + parent2[c:] and
\* child2 = parent2[:c] + parent1[c:]; so at every position i the pair
\* {child1[i], child2[i]} equals {parent1[i], parent2[i]}.
C25_CrossoverCut ==
    Called("crossover") =>
        LET parent1 == result[1].before[1]
            parent2 == result[1].before[2]
            child1 == result[1].returned[1]
            child2 == result[1].returned[2]
            n == Len(parent1)
        IN  /\ Len(child1) = n /\ Len(child2) = n
            /\ n < 2 => child1 = parent1 /\ child2 = parent2
            /\ n >= 2 =>
                  \E c \in 1..n :
                     /\ child1 = SubSeq(parent1, 1, c) \o SubSeq(parent2, c + 1, n)
                     /\ child2 = SubSeq(parent2, 1, c) \o SubSeq(parent1, c + 1, n)
            /\ \A i \in 1..n : {child1[i], child2[i]} = {parent1[i], parent2[i]}

\* parents [1, 2] and [2, 1] cut after the first gene: children [1, 1] and [2, 2]
C25_Witness ==
    /\ Called("crossover")
    /\ result[1].before = <<(<<1, 2>>), (<<2, 1>>)>>
    /\ result[1].returned = <<(<<1, 1>>), (<<2, 2>>)>>

\* some operator call has returned
CalledAny == mode = "operators" /\ pc = "done" /\ result # None

GenerationStart == Started /\ pc = "loop" /\ generation < ga[1].max_generations

\* P as the specification defines it: the population size given to the
\* constructor, and max(1, 8 * W) when none is given
SpecifiedPopulationSize(population_size, n_written) ==
    IF population_size > 0 THEN population_size
    ELSE IF 8 * n_written >= 1 THEN 8 * n_written ELSE 1

\* C26 as stated: at the start of every generation the population has exactly
\* P chromosomes, P being the given population size, or max(1, 8 * W) when
\* none is given (no negative size is given here).
C26_PopulationSize ==
    (mode = "match" /\ GenerationStart /\ cfg.population_size >= 0) =>
        Len(population) = SpecifiedPopulationSize(cfg.population_size, W)

\* the pass that appends records of a type: 2 broken/extra, 3 missing,
\* 4 orientation, 5 order (pass 1 appends nothing)
PassOf(type) ==
    CASE type \in {"EXTRA", "BROKEN"} -> 2
      [] type = "MISSING" -> 3
      [] type = "ORIENTATION" -> 4
      [] type = "ORDER" -> 5

\* C28: the error list is ordered by pass: every EXTRA and BROKEN record
\* precedes every MISSING record, every MISSING record precedes every
\* ORIENTATION record, and every ORIENTATION record precedes every ORDER
\* record; and the records of each pass stand in the final list as that pass
\* produced them: no later pass removed or changed one.
C28_PassOrder ==
    Detected =>
        LET m == result[1].mapping[1]
            errors == result[1].errors
            of(p) == SelectSeq(errors, LAMBDA e : PassOf(e.type) = p)
        IN  /\ \A i, j \in DOMAIN errors :
                  i < j => PassOf(errors[i].type) <= PassOf(errors[j].type)
            /\ of(2) = check_broken_extra(m)
            /\ of(3) = check_missing(m, R)
            /\ of(4) = check_orientation(m, written_features, reference_features,
                                         default_angle_threshold)
            /\ of(5) = check_order(m)

\* an error list with records of all four kinds the passes can append
C28_Witness ==
    /\ Detected
    /\ Indices(result[1].errors, "EXTRA") # {}
    /\ Indices(result[1].errors, "MISSING") # {}
    /\ Indices(result[1].errors, "ORIENTATION") # {}
    /\ Indices(result[1].errors, "ORDER") # {}

\* a is at most b, as fitness values
FitAtMost(a, b) == ~FitLess(b, a)

\* C29: in an evolve call with W >= 1 and max_generations >= 1, every
\* chromosome evaluated in a generation has a fitness of at most the best
\* fitness held from then on, which is the maximum of the best-fitness
\* history; and when evolve returns, the returned fitness is that maximum and
\* is the fitness of the returned mapping.
C29_BestIsMaximum ==
    (mode = "ga" /\ Started /\ calls >= 1 /\ W >= 1 /\ ga[1].max_generations >= 1) =>
        LET h == ga[1].best_fitness_history
        IN  /\ \A i \in DOMAIN fitnesses :
                  /\ fitnesses[i] = evaluate_chromosome(ga[1].fitness_func, population[i],
                                                        written_features, reference_features)
                  /\ FitAtMost(fitnesses[i], best_fitness)
            /\ \A k \in DOMAIN h : FitAtMost(h[k], best_fitness)
            /\ h # <<>> => \E k \in DOMAIN h : h[k] = best_fitness
            /\ Returned =>
                  /\ h # <<>>
                  /\ result[1].history.best_fitness = h
                  /\ result[1].fitness = best_fitness
                  /\ result[1].mapping # None
                  /\ result[1].fitness =
                        evaluate_chromosome(ga[1].fitness_func, result[1].mapping[1],
                                            written_features, reference_features)

\* a run that returned after its best fitness rose from generation 0 to
\* generation 1: the returned fitness is the later, larger one
C29_Witness ==
    /\ mode = "ga" /\ Returned
    /\ W >= 1
    /\ Len(ga[1].best_fitness_history) >= 2
    /\ FitLess(ga[1].best_fitness_history[1], ga[1].best_fitness_history[2])
    /\ result[1].fitness = ga[1].best_fitness_history[2]

\* the number of generations the call that has returned evaluated: the for
\* loop was left by the break in generation number generation, or it ran out
\* after max_generations generations
Executed ==
    IF generations_without_improvement >= ga[1].convergence_generations
    THEN generation + 1
    ELSE generation

\* C30 as stated: for every evolve call on a GeneticAlgorithm, a second call
\* on the same object included, the returned 'generations' is the number of
\* generations that call executed, and the returned history lists have
\* exactly one entry per generation of that call.
C30_GenerationsOfThisCall ==
    (mode = "ga" /\ Returned) =>
        /\ result[1].generations = Executed
        /\ Len(result[1].history.best_fitness) = Executed
        /\ Len(result[1].history.avg_fitness) = Executed
===========================================================================
